---- MODULE Spec2Model ----
(***************************************************************************)
(* Image management of recogni/mcumgr: the slot status flags derived from  *)
(* the bootloader's swap type, the slot selector, the state transitions    *)
(* (set pending, confirm) and the chunked image upload (inspector and      *)
(* session).                                                               *)
(***************************************************************************)
EXTENDS Integers, Sequences, FiniteSets, TLC

VARIABLES
    swap,              \* what mcuboot_swap_type() returns (raw BOOT_SWAP_TYPE_*)
    g_img_mgmt_state,  \* the upload session: area_id, off, size, data_sha
    ctx,               \* the flash-image context of img_mgmt_impl_write_image_data
    flash,             \* per flash area: the sectors holding a non-erased word
    cfg,               \* the build and the device: align, assert_on, lazy_erase, heap
    halted,            \* assert(0) fired
    hist,              \* of the upload under way: the flash writes done, the bytes
                       \* sent, the image asked for, the area selected, and
                       \* whether it took the place of an upload under way
    obs                \* the last request handled and what it was answered with

vars == <<swap, g_img_mgmt_state, ctx, flash, cfg, halted, hist, obs>>

(***************************************************************************)
(* Program constants.                                                      *)
(***************************************************************************)
BOOT_SWAP_TYPE_NONE == 1
BOOT_SWAP_TYPE_TEST == 2
BOOT_SWAP_TYPE_PERM == 3
BOOT_SWAP_TYPE_REVERT == 4
BOOT_SWAP_TYPE_PANIC == 255

IMG_MGMT_SWAP_TYPE_NONE == 0
IMG_MGMT_SWAP_TYPE_TEST == 1
IMG_MGMT_SWAP_TYPE_PERM == 2
IMG_MGMT_SWAP_TYPE_REVERT == 3

IMG_MGMT_BOOT_CURR_SLOT == 0

MGMT_ERR_EUNKNOWN == 1
MGMT_ERR_ENOMEM == 2
MGMT_ERR_EINVAL == 3
MGMT_ERR_EBADSTATE == 6

FLASH_AREA_ID_image_0 == 1
FLASH_AREA_ID_image_1 == 2
FLASH_AREA_ID_image_2 == 5

IMAGE_HEADER_SIZE == 32
IMG_MGMT_DATA_SHA_LEN == 32

\* the width of uint8_t (fa_id, rem_bytes)
UINT8_MOD == 256

F_PENDING == "Pending"
F_CONFIRMED == "Confirmed"
F_ACTIVE == "Active"
F_PERMANENT == "Permanent"

KnownBootSwapTypes ==
    {BOOT_SWAP_TYPE_NONE, BOOT_SWAP_TYPE_TEST, BOOT_SWAP_TYPE_PERM, BOOT_SWAP_TYPE_REVERT}

BootSwapTypes == KnownBootSwapTypes \cup {BOOT_SWAP_TYPE_PANIC}

(***************************************************************************)
(* img_mgmt_impl_swap_type: the bootloader's value as an IMG_MGMT_SWAP_TYPE *)
(* value; bs is what mcuboot_swap_type() returns. An unknown value runs    *)
(* into assert(0): with assertions compiled in the program stops there     *)
(* (AssertFires); with assertions compiled out the function returns        *)
(* IMG_MGMT_SWAP_TYPE_NONE.                                                *)
(***************************************************************************)
AssertFires == cfg.assert_on /\ swap \notin KnownBootSwapTypes

img_mgmt_impl_swap_type(bs) ==
    CASE bs = BOOT_SWAP_TYPE_NONE -> IMG_MGMT_SWAP_TYPE_NONE
      [] bs = BOOT_SWAP_TYPE_TEST -> IMG_MGMT_SWAP_TYPE_TEST
      [] bs = BOOT_SWAP_TYPE_PERM -> IMG_MGMT_SWAP_TYPE_PERM
      [] bs = BOOT_SWAP_TYPE_REVERT -> IMG_MGMT_SWAP_TYPE_REVERT
      [] OTHER -> IMG_MGMT_SWAP_TYPE_NONE

\* a derivation that reports the boot slot Active whatever the swap type is
StateFlagsOf_BootSlotActive(swap_type, query_slot) ==
    LET flags == CASE swap_type = IMG_MGMT_SWAP_TYPE_NONE ->
                        IF query_slot = IMG_MGMT_BOOT_CURR_SLOT THEN {F_CONFIRMED} ELSE {}
                   [] swap_type = IMG_MGMT_SWAP_TYPE_TEST ->
                        IF query_slot = IMG_MGMT_BOOT_CURR_SLOT
                        THEN {F_CONFIRMED} ELSE {F_PENDING}
                   [] swap_type = IMG_MGMT_SWAP_TYPE_PERM ->
                        IF query_slot = IMG_MGMT_BOOT_CURR_SLOT
                        THEN {F_CONFIRMED} ELSE {F_PENDING, F_PERMANENT}
                   [] swap_type = IMG_MGMT_SWAP_TYPE_REVERT ->
                        IF query_slot = IMG_MGMT_BOOT_CURR_SLOT THEN {} ELSE {F_CONFIRMED}
                   [] OTHER -> {}
    IN  IF query_slot = IMG_MGMT_BOOT_CURR_SLOT THEN flags \cup {F_ACTIVE} ELSE flags

(***************************************************************************)
(* img_mgmt_state_flags, the default (swap-type based) derivation.         *)
(***************************************************************************)
StateFlagsOf(swap_type, query_slot) ==
    CASE swap_type = IMG_MGMT_SWAP_TYPE_NONE ->
            IF query_slot = IMG_MGMT_BOOT_CURR_SLOT
            THEN {F_CONFIRMED, F_ACTIVE} ELSE {}
      [] swap_type = IMG_MGMT_SWAP_TYPE_TEST ->
            IF query_slot = IMG_MGMT_BOOT_CURR_SLOT
            THEN {F_CONFIRMED} ELSE {F_PENDING}
      [] swap_type = IMG_MGMT_SWAP_TYPE_PERM ->
            IF query_slot = IMG_MGMT_BOOT_CURR_SLOT
            THEN {F_CONFIRMED} ELSE {F_PENDING, F_PERMANENT}
      [] swap_type = IMG_MGMT_SWAP_TYPE_REVERT ->
            IF query_slot = IMG_MGMT_BOOT_CURR_SLOT
            THEN {F_ACTIVE} ELSE {F_CONFIRMED}
      [] OTHER -> {}

img_mgmt_state_flags(bs, query_slot) ==
    StateFlagsOf(img_mgmt_impl_swap_type(bs), query_slot)

img_mgmt_state_any_pending(bs) ==
    \/ F_PENDING \in img_mgmt_state_flags(bs, 0)
    \/ F_PENDING \in img_mgmt_state_flags(bs, 1)

\* a slot_in_use that leaves the Pending flag out of the test
img_mgmt_slot_in_use_NoPending(bs, slot) ==
    LET state_flags == img_mgmt_state_flags(bs, slot)
    IN  \/ F_ACTIVE \in state_flags
        \/ F_CONFIRMED \in state_flags

img_mgmt_slot_in_use(bs, slot) ==
    LET state_flags == img_mgmt_state_flags(bs, slot)
    IN  \/ F_ACTIVE \in state_flags
        \/ F_CONFIRMED \in state_flags
        \/ F_PENDING \in state_flags

(***************************************************************************)
(* zephyr_img_mgmt_flash_area_id: fa_id is a uint8_t, so the -1 of the     *)
(* default case is returned as 255. The device of the model defines        *)
(* image_0, image_1 and image_2 and no image_3.                            *)
(***************************************************************************)
zephyr_img_mgmt_flash_area_id(slot) ==
    CASE slot = 0 -> FLASH_AREA_ID_image_0
      [] slot = 1 -> FLASH_AREA_ID_image_1
      [] slot = 2 -> FLASH_AREA_ID_image_2
      [] OTHER -> (-1) % UINT8_MOD

RECURSIVE AutoSelectFrom(_, _)
AutoSelectFrom(bs, slot) ==
    IF slot >= 2 THEN -1
    ELSE IF ~img_mgmt_slot_in_use(bs, slot)
            /\ zephyr_img_mgmt_flash_area_id(slot) # -1
         THEN zephyr_img_mgmt_flash_area_id(slot)
         ELSE AutoSelectFrom(bs, slot + 1)

img_mgmt_get_unused_slot_area_id(bs, slot) ==
    IF slot < -1 THEN -1
    ELSE IF slot = -1 THEN AutoSelectFrom(bs, 0)
    ELSE LET s == IF slot < 2
                  THEN (IF ~img_mgmt_slot_in_use(bs, slot) THEN slot ELSE -1)
                  ELSE slot
         IN  IF s # -1 THEN zephyr_img_mgmt_flash_area_id(s) ELSE -1

(***************************************************************************)
(* img_mgmt_vercmp: -1, 0, 1; the build number is not compared.            *)
(***************************************************************************)
\* a comparison that goes on to the build number
img_mgmt_vercmp_WithBuild(a, b) ==
    IF a.iv_major < b.iv_major THEN -1
    ELSE IF a.iv_major > b.iv_major THEN 1
    ELSE IF a.iv_minor < b.iv_minor THEN -1
    ELSE IF a.iv_minor > b.iv_minor THEN 1
    ELSE IF a.iv_revision < b.iv_revision THEN -1
    ELSE IF a.iv_revision > b.iv_revision THEN 1
    ELSE IF a.iv_build_num < b.iv_build_num THEN -1
    ELSE IF a.iv_build_num > b.iv_build_num THEN 1
    ELSE 0

img_mgmt_vercmp(a, b) ==
    IF a.iv_major < b.iv_major THEN -1
    ELSE IF a.iv_major > b.iv_major THEN 1
    ELSE IF a.iv_minor < b.iv_minor THEN -1
    ELSE IF a.iv_minor > b.iv_minor THEN 1
    ELSE IF a.iv_revision < b.iv_revision THEN -1
    ELSE IF a.iv_revision > b.iv_revision THEN 1
    ELSE 0

(***************************************************************************)
(* The flash of the device: FaSectors sectors of SectorSize bytes per      *)
(* area; flash[a] is the set of sectors of area a that hold a word         *)
(* different from the erased value.                                        *)
(***************************************************************************)
SectorSize == 512
FaSectors == 2
Sectors == 0 .. (FaSectors - 1)
FaSize == FaSectors * SectorSize
AreaIds == {FLASH_AREA_ID_image_0, FLASH_AREA_ID_image_1, FLASH_AREA_ID_image_2}

\* flash_area_open(id): fails for an id no area has, or when the driver fails
flash_area_open(fa_id, io_ok) == fa_id \in AreaIds /\ io_ok

\* the sectors the bytes [off, off + len) lie in
SectorsOf(off, len) ==
    {s \in Sectors : len > 0 /\ s * SectorSize < off + len /\ off < (s + 1) * SectorSize}

(***************************************************************************)
(* zephyr_img_mgmt_flash_check_empty: the whole area is read, word by      *)
(* word; empty iff no word differs from the erased value.                  *)
(***************************************************************************)
\* a scan that ends with the first sector
ScanEnd_FirstSector == SectorSize

ScanEnd == FaSize

\* a scan that stops after the first sector
zephyr_img_mgmt_flash_check_empty_FirstSector(fa_id, io_ok) ==
    IF ~flash_area_open(fa_id, io_ok)
    THEN [rc |-> MGMT_ERR_EUNKNOWN, empty |-> FALSE]
    ELSE [rc |-> 0, empty |-> 0 \notin flash[fa_id]]

zephyr_img_mgmt_flash_check_empty(fa_id, io_ok) ==
    IF ~flash_area_open(fa_id, io_ok)
    THEN [rc |-> MGMT_ERR_EUNKNOWN, empty |-> FALSE]
    ELSE [rc |-> 0,
          empty |-> \A s \in Sectors :
                        s * SectorSize < ScanEnd => s \notin flash[fa_id]]

(***************************************************************************)
(* img_mgmt_impl_upload_inspect(req, action, errstr).                      *)
(*   req: off and size are -1 when the field is absent; hdr_magic_ok is    *)
(*   hdr->ih_magic == IMAGE_MAGIC; ih_ver is the header's version.         *)
(*   env: cur_ver is what img_mgmt_my_version reads; fail names the        *)
(*   collaborator call that fails in this request ("none": no failure).    *)
(* The result is [rc, errstr, action]; errstr is "unset" when the call     *)
(* does not assign *errstr.                                                *)
(***************************************************************************)
ActionZero ==
    [proceed |-> FALSE, area_id |-> 0, size |-> 0, write_bytes |-> 0, erase |-> FALSE]

ShaMatches(req) ==
    /\ g_img_mgmt_state.data_sha_len = Len(req.data_sha)
    /\ SubSeq(g_img_mgmt_state.data_sha, 1, Len(req.data_sha)) = req.data_sha

\* rem_bytes is a uint8_t
RemBytes(data_len, align) == (data_len % align) % UINT8_MOD

\* a write size that is cut down to the alignment in the last block too
InspectWriteSize_ClampsLast(req, env, action, errstr) ==
    LET a1 == [action EXCEPT !.write_bytes = req.data_len]
    IN  IF ~flash_area_open(a1.area_id % UINT8_MOD, env.fail # "open")
        THEN [rc |-> MGMT_ERR_EUNKNOWN, errstr |-> "flash_open_failed", action |-> a1]
        ELSE [rc |-> 0, errstr |-> errstr,
              action |-> [a1 EXCEPT !.write_bytes = req.data_len - RemBytes(req.data_len, cfg.align),
                                    !.proceed = TRUE]]

\* "Calculate size of flash write", lines 752-773
InspectWriteSize(req, env, action, errstr) ==
    LET a1 == [action EXCEPT !.write_bytes = req.data_len]
    IN  IF req.off + req.data_len < a1.size
        THEN IF ~flash_area_open(a1.area_id % UINT8_MOD, env.fail # "open")
             THEN [rc |-> MGMT_ERR_EUNKNOWN, errstr |-> "flash_open_failed", action |-> a1]
             ELSE [rc |-> 0, errstr |-> errstr,
                   action |-> [a1 EXCEPT !.write_bytes = req.data_len - RemBytes(req.data_len, cfg.align),
                                         !.proceed = TRUE]]
        ELSE [rc |-> 0, errstr |-> errstr, action |-> [a1 EXCEPT !.proceed = TRUE]]

\* an upgrade-only check that lets an equal version through
UpgradeAllowed_EqualPasses(cur_ver, new_ver) == ~(img_mgmt_vercmp(cur_ver, new_ver) > 0)

\* the upgrade-only check, lines 713-726: TRUE when the request is let through
UpgradeAllowed(cur_ver, new_ver) == ~(img_mgmt_vercmp(cur_ver, new_ver) >= 0)

\* the first chunk from the slot selection on, lines 685-737
InspectFirstSelected(req, env, action) ==
    LET a1 == [action EXCEPT !.area_id = img_mgmt_get_unused_slot_area_id(swap, req.image - 1)]
        chk == zephyr_img_mgmt_flash_check_empty(a1.area_id % UINT8_MOD, env.fail # "check")
    IN  IF a1.area_id < 0
        THEN [rc |-> MGMT_ERR_ENOMEM, errstr |-> "no_slot", action |-> a1]
        ELSE IF req.upgrade /\ env.fail = "ver"
        THEN [rc |-> MGMT_ERR_EUNKNOWN, errstr |-> "unset", action |-> a1]
        ELSE IF req.upgrade /\ ~UpgradeAllowed(env.cur_ver, req.ih_ver)
        THEN [rc |-> MGMT_ERR_EBADSTATE, errstr |-> "downgrade", action |-> a1]
        ELSE IF cfg.lazy_erase
        THEN InspectWriteSize(req, env, a1, "unset")
        ELSE IF chk.rc # 0
        THEN [rc |-> MGMT_ERR_EUNKNOWN, errstr |-> "unset", action |-> a1]
        ELSE InspectWriteSize(req, env, [a1 EXCEPT !.erase = ~chk.empty], "unset")

\* a shortcut that takes any fingerprint for the session's
ResumeShortcut_AnySha(req) ==
    /\ Len(req.data_sha) > 0
    /\ g_img_mgmt_state.area_id # -1

\* a shortcut whose memcmp result is taken the wrong way round
ResumeShortcut_ShaDiffers(req) ==
    /\ Len(req.data_sha) > 0
    /\ g_img_mgmt_state.area_id # -1
    /\ ~ShaMatches(req)

\* the resumption shortcut, lines 677-683
ResumeShortcut(req) ==
    /\ Len(req.data_sha) > 0
    /\ g_img_mgmt_state.area_id # -1
    /\ ShaMatches(req)

\* a continuation that answers an unexpected offset with an error
InspectContinuation_MismatchFails(req, env) ==
    LET a1 == [ActionZero EXCEPT !.area_id = g_img_mgmt_state.area_id,
                                 !.size = g_img_mgmt_state.size]
    IN  IF req.off # g_img_mgmt_state.off
        THEN [rc |-> MGMT_ERR_EINVAL, errstr |-> "unset", action |-> a1]
        ELSE InspectWriteSize(req, env, a1, "unset")

\* "Continuation of upload", lines 738-750, and the write size after it
InspectContinuation(req, env) ==
    LET a1 == [ActionZero EXCEPT !.area_id = g_img_mgmt_state.area_id,
                                 !.size = g_img_mgmt_state.size]
    IN  IF req.off # g_img_mgmt_state.off
        THEN [rc |-> 0, errstr |-> "unset", action |-> a1]
        ELSE InspectWriteSize(req, env, a1, "unset")

\* a length test against the size of the pointer instead of the header
ChunkHoldsHeader_PointerSize(req) == req.data_len >= 8

\* line 646: the chunk is as long as an image header
ChunkHoldsHeader(req) == req.data_len >= IMAGE_HEADER_SIZE

img_mgmt_impl_upload_inspect(req, env) ==
    IF req.off = -1
    THEN [rc |-> MGMT_ERR_EINVAL, errstr |-> "hdr_malformed", action |-> ActionZero]
    ELSE IF req.off = 0
    THEN IF ~ChunkHoldsHeader(req)
         THEN [rc |-> MGMT_ERR_EINVAL, errstr |-> "hdr_malformed", action |-> ActionZero]
         ELSE IF req.size = -1
         THEN [rc |-> MGMT_ERR_EINVAL, errstr |-> "hdr_malformed", action |-> ActionZero]
         ELSE LET a1 == [ActionZero EXCEPT !.size = req.size]
              IN  IF ~req.hdr_magic_ok
                  THEN [rc |-> MGMT_ERR_EINVAL, errstr |-> "magic_mismatch", action |-> a1]
                  ELSE IF Len(req.data_sha) > IMG_MGMT_DATA_SHA_LEN
                  THEN [rc |-> MGMT_ERR_EINVAL, errstr |-> "unset", action |-> a1]
                  ELSE IF ResumeShortcut(req)
                  THEN [rc |-> 0, errstr |-> "unset", action |-> a1]
                  ELSE InspectFirstSelected(req, env, a1)
    ELSE InspectContinuation(req, env)

(***************************************************************************)
(* img_mgmt_impl_erase_image_data(0, num_bytes) on the session's area: the *)
(* pages up to the one holding byte num_bytes - 1, then the trailer's page *)
(* when it was not among them.                                             *)
(***************************************************************************)
img_mgmt_impl_erase_image_data(area_id, num_bytes, io_ok) ==
    IF ~flash_area_open(area_id % UINT8_MOD, io_ok) \/ num_bytes > FaSize
    THEN [rc |-> MGMT_ERR_EUNKNOWN, flash |-> flash]
    ELSE [rc |-> 0,
          flash |-> [flash EXCEPT ![area_id] =
                        @ \ (SectorsOf(0, num_bytes) \cup {FaSectors - 1})]]

(***************************************************************************)
(* img_mgmt_impl_write_image_data(offset, data, num_bytes, last) on the    *)
(* flash fl. ctx.alloc: the context exists (always, without a heap);       *)
(* ctx.pos is stream.bytes_written + stream.buf_bytes.                     *)
(***************************************************************************)
CtxInit == [alloc |-> FALSE, pos |-> 0, area |-> -1]

\* a writer that does not compare the offset with the context's position
img_mgmt_impl_write_image_data_AnyOffset(area_id, fl, offset, num_bytes, last, io_ok) ==
    LET fail == [rc |-> MGMT_ERR_EUNKNOWN, ctx |-> ctx, flash |-> fl]
        c1 == IF offset = 0
              THEN [alloc |-> TRUE, pos |-> 0, area |-> area_id]
              ELSE ctx
    IN  IF cfg.heap /\ offset # 0 /\ ~ctx.alloc THEN fail
        ELSE IF offset = 0 /\ ~flash_area_open(area_id % UINT8_MOD, TRUE) THEN fail
        ELSE IF ~io_ok \/ c1.area \notin AreaIds \/ offset + num_bytes > FaSize
        THEN [fail EXCEPT !.ctx = c1]
        ELSE [rc |-> 0,
              ctx |-> IF cfg.heap /\ last
                      THEN CtxInit
                      ELSE [c1 EXCEPT !.pos = @ + num_bytes],
              flash |-> [fl EXCEPT ![c1.area] = @ \cup SectorsOf(offset, num_bytes)]]

img_mgmt_impl_write_image_data(area_id, fl, offset, num_bytes, last, io_ok) ==
    LET fail == [rc |-> MGMT_ERR_EUNKNOWN, ctx |-> ctx, flash |-> fl]
        c1 == IF offset = 0
              THEN [alloc |-> TRUE, pos |-> 0, area |-> area_id]
              ELSE ctx
    IN  IF cfg.heap /\ offset # 0 /\ ~ctx.alloc THEN fail
        ELSE IF offset = 0 /\ ~flash_area_open(area_id % UINT8_MOD, TRUE) THEN fail
        ELSE IF offset # c1.pos THEN [fail EXCEPT !.ctx = c1]
        ELSE IF ~io_ok \/ c1.area \notin AreaIds \/ offset + num_bytes > FaSize
        THEN [fail EXCEPT !.ctx = c1]
        ELSE [rc |-> 0,
              ctx |-> IF cfg.heap /\ last
                      THEN CtxInit
                      ELSE [c1 EXCEPT !.pos = @ + num_bytes],
              flash |-> [fl EXCEPT ![c1.area] = @ \cup SectorsOf(offset, num_bytes)]]

(***************************************************************************)
(* The image upload handler: inspect the request, then act on the action.  *)
(***************************************************************************)
SessionIdle ==
    [area_id |-> -1, off |-> 0, size |-> 0, data_sha_len |-> 0, data_sha |-> <<>>]

img_mgmt_upload(req, env) ==
    LET r == img_mgmt_impl_upload_inspect(req, env)
        same == [rc |-> r.rc, errstr |-> r.errstr, action |-> r.action,
                 g |-> g_img_mgmt_state, ctx |-> ctx, flash |-> flash,
                 erased |-> FALSE, written |-> 0]
        g1 == IF req.off = 0
              THEN [area_id |-> r.action.area_id, off |-> 0, size |-> req.size,
                    data_sha_len |-> Len(req.data_sha), data_sha |-> req.data_sha]
              ELSE g_img_mgmt_state
        do_erase == req.off = 0 /\ ~cfg.lazy_erase /\ r.action.erase
        er == img_mgmt_impl_erase_image_data(g1.area_id, req.size, env.fail # "erase")
        fl1 == IF do_erase THEN er.flash ELSE flash
        last == g1.off + req.data_len = g1.size
        wr == img_mgmt_impl_write_image_data(g1.area_id, fl1, req.off,
                                             r.action.write_bytes, last,
                                             env.fail # "write")
        g2 == [g1 EXCEPT !.off = @ + r.action.write_bytes]
        g3 == IF g2.off = g2.size THEN [g2 EXCEPT !.area_id = -1] ELSE g2
    IN  IF r.rc # 0 \/ ~r.action.proceed THEN same
        ELSE IF do_erase /\ er.rc # 0
        THEN [same EXCEPT !.rc = MGMT_ERR_EUNKNOWN, !.errstr = "flash_erase_failed",
                          !.g = g1]
        ELSE IF req.data_len = 0
        THEN [same EXCEPT !.g = g1, !.flash = fl1, !.erased = do_erase]
        ELSE IF wr.rc # 0
        THEN [same EXCEPT !.rc = MGMT_ERR_EUNKNOWN, !.errstr = "flash_write_failed",
                          !.g = g1, !.ctx = wr.ctx, !.flash = fl1, !.erased = do_erase]
        ELSE [same EXCEPT !.g = g3, !.ctx = wr.ctx, !.flash = wr.flash,
                          !.erased = do_erase, !.written = r.action.write_bytes]

(***************************************************************************)
(* The boot-state collaborator (mcuboot), at its interface.                *)
(***************************************************************************)
\* boot_request_upgrade(permanent): a swap already scheduled is left as it is
boot_request_upgrade(permanent) ==
    IF swap \in {BOOT_SWAP_TYPE_TEST, BOOT_SWAP_TYPE_PERM} THEN swap
    ELSE IF permanent THEN BOOT_SWAP_TYPE_PERM ELSE BOOT_SWAP_TYPE_TEST

\* boot_write_img_confirmed(): the running image is marked ok
boot_write_img_confirmed ==
    IF swap = BOOT_SWAP_TYPE_REVERT THEN BOOT_SWAP_TYPE_NONE ELSE swap

\* img_mgmt_read_info(slot): an image is read when the slot's first sector holds one
ImagePresent(slot) == 0 \in flash[zephyr_img_mgmt_flash_area_id(slot)]

\* the bootloader exchanges the slots at the next boot: a scheduled swap of
\* an image that is there, or the revert of a test
BootSwaps ==
    \/ swap \in {BOOT_SWAP_TYPE_TEST, BOOT_SWAP_TYPE_PERM} /\ ImagePresent(1)
    \/ swap = BOOT_SWAP_TYPE_REVERT

\* what the bootloader makes of the swap type at the next boot
BootResolve ==
    CASE swap = BOOT_SWAP_TYPE_TEST ->
            IF ImagePresent(1) THEN BOOT_SWAP_TYPE_REVERT ELSE BOOT_SWAP_TYPE_NONE
      [] swap = BOOT_SWAP_TYPE_PERM -> BOOT_SWAP_TYPE_NONE
      [] swap = BOOT_SWAP_TYPE_REVERT -> BOOT_SWAP_TYPE_NONE
      [] OTHER -> swap

\* img_mgmt_impl_log_confirm(status, hash): the outcome is logged, and what
\* comes back is how the logging went (log_rc), not the status that was logged
LogResults == {0, MGMT_ERR_EUNKNOWN}

img_mgmt_impl_log_confirm(status, log_rc) == log_rc

(***************************************************************************)
(* img_mgmt_impl_write_pending, img_mgmt_impl_write_confirmed.             *)
(***************************************************************************)
\* a write_pending that asks the bootloader whatever the slot
img_mgmt_impl_write_pending_AnySlot(slot, permanent, boot_ok) ==
    IF ~boot_ok THEN [rc |-> MGMT_ERR_EUNKNOWN, swap |-> swap, requested |-> TRUE]
    ELSE [rc |-> 0, swap |-> boot_request_upgrade(permanent), requested |-> TRUE]

img_mgmt_impl_write_pending(slot, permanent, boot_ok) ==
    IF slot # 1 THEN [rc |-> MGMT_ERR_EINVAL, swap |-> swap, requested |-> FALSE]
    ELSE IF ~boot_ok THEN [rc |-> MGMT_ERR_EUNKNOWN, swap |-> swap, requested |-> TRUE]
    ELSE [rc |-> 0, swap |-> boot_request_upgrade(permanent), requested |-> TRUE]

img_mgmt_impl_write_confirmed(boot_ok) ==
    IF ~boot_ok THEN [rc |-> MGMT_ERR_EUNKNOWN, swap |-> swap]
    ELSE [rc |-> 0, swap |-> boot_write_img_confirmed]

(***************************************************************************)
(* img_mgmt_state_set_pending(slot, permanent).                            *)
(***************************************************************************)
\* a set_pending whose guard looks at the boot slot instead of the others
img_mgmt_state_set_pending_GuardOnBootSlot(slot, permanent, boot_ok) ==
    LET state_flags == img_mgmt_state_flags(swap, slot)
        wp == img_mgmt_impl_write_pending(slot, permanent, boot_ok)
        guarded == F_CONFIRMED \in state_flags /\ slot = 0
        rc == IF guarded THEN MGMT_ERR_EBADSTATE
              ELSE IF wp.rc # 0 THEN MGMT_ERR_EUNKNOWN ELSE 0
    IN  [rc |-> rc,
         swap |-> IF guarded THEN swap ELSE wp.swap,
         requested |-> ~guarded /\ wp.requested,
         steps |-> IF guarded THEN <<"read_info", "log">>
                   ELSE <<"write_pending", "read_info", "log">>,
         log |-> <<[kind |-> IF permanent THEN "confirm" ELSE "pending",
                    status |-> rc,
                    hash |-> IF ImagePresent(slot) THEN "hash" ELSE "absent"]>>]

\* a set_pending whose guard returns at once, before the outcome is logged
img_mgmt_state_set_pending_RejectUnlogged(slot, permanent, boot_ok) ==
    LET state_flags == img_mgmt_state_flags(swap, slot)
        wp == img_mgmt_impl_write_pending(slot, permanent, boot_ok)
        rc == IF F_CONFIRMED \in state_flags /\ slot # 0 THEN MGMT_ERR_EBADSTATE
              ELSE IF wp.rc # 0 THEN MGMT_ERR_EUNKNOWN ELSE 0
        guarded == F_CONFIRMED \in state_flags /\ slot # 0
    IN  [rc |-> rc,
         swap |-> IF guarded THEN swap ELSE wp.swap,
         requested |-> ~guarded /\ wp.requested,
         steps |-> IF guarded THEN <<>> ELSE <<"write_pending", "read_info", "log">>,
         log |-> IF guarded THEN <<>>
                 ELSE <<[kind |-> IF permanent THEN "confirm" ELSE "pending",
                         status |-> rc,
                         hash |-> IF ImagePresent(slot) THEN "hash" ELSE "absent"]>>]

img_mgmt_state_set_pending(slot, permanent, boot_ok) ==
    LET state_flags == img_mgmt_state_flags(swap, slot)
        wp == img_mgmt_impl_write_pending(slot, permanent, boot_ok)
        rc == IF F_CONFIRMED \in state_flags /\ slot # 0 THEN MGMT_ERR_EBADSTATE
              ELSE IF wp.rc # 0 THEN MGMT_ERR_EUNKNOWN ELSE 0
        guarded == F_CONFIRMED \in state_flags /\ slot # 0
    IN  [rc |-> rc,
         swap |-> IF guarded THEN swap ELSE wp.swap,
         requested |-> ~guarded /\ wp.requested,
         steps |-> IF guarded THEN <<"read_info", "log">>
                   ELSE <<"write_pending", "read_info", "log">>,
         log |-> <<[kind |-> IF permanent THEN "confirm" ELSE "pending",
                    status |-> rc,
                    hash |-> IF ImagePresent(slot) THEN "hash" ELSE "absent"]>>]

(***************************************************************************)
(* img_mgmt_state_confirm().                                               *)
(***************************************************************************)
img_mgmt_state_confirm(boot_ok, log_rc) ==
    LET wc == img_mgmt_impl_write_confirmed(boot_ok)
        pending == img_mgmt_state_any_pending(swap)
        rc == IF pending THEN MGMT_ERR_EBADSTATE
              ELSE IF wc.rc # 0 THEN MGMT_ERR_EUNKNOWN ELSE 0
    IN  [rc |-> img_mgmt_impl_log_confirm(rc, log_rc),
         swap |-> IF pending THEN swap ELSE wc.swap,
         persisted |-> ~pending /\ wc.rc = 0,
         notified |-> ~pending,
         steps |-> IF pending THEN <<"log">>
                   ELSE <<"write_confirmed", "dfu_confirmed", "log">>,
         log |-> <<[kind |-> "confirm", status |-> rc, hash |-> "absent"]>>]

(***************************************************************************)
(* img_mgmt_state_read: per slot with a readable image, the flags.         *)
(***************************************************************************)
img_mgmt_state_read(bs) ==
    [i \in {j \in {0, 1} : ImagePresent(j)} |-> img_mgmt_state_flags(bs, i)]

(***************************************************************************)
(* img_mgmt_state_write: hash_given is hash_len > 0, found is what         *)
(* img_mgmt_find_by_hash returns (-1: no slot holds the hash).             *)
(***************************************************************************)
StateWriteSlot(hash_given, confirm, found) ==
    IF ~hash_given
    THEN (IF confirm THEN IMG_MGMT_BOOT_CURR_SLOT ELSE -1)
    ELSE found

\* a state write that reads the image state before it applies the transition
img_mgmt_state_write_ReadFirst(hash_given, confirm, found, boot_ok, log_rc) ==
    LET slot == StateWriteSlot(hash_given, confirm, found)
        cf == img_mgmt_state_confirm(boot_ok, log_rc)
        sp == img_mgmt_state_set_pending(slot, confirm, boot_ok)
        none == [rc |-> MGMT_ERR_EINVAL, swap |-> swap, via |-> "none", slot |-> slot,
                 log |-> <<>>, images |-> <<>>]
    IN  IF slot < 0 THEN none
        ELSE IF slot = IMG_MGMT_BOOT_CURR_SLOT /\ confirm
        THEN [rc |-> cf.rc, swap |-> cf.swap, via |-> "confirm", slot |-> slot,
              log |-> cf.log,
              images |-> IF cf.rc = 0 THEN img_mgmt_state_read(swap) ELSE <<>>]
        ELSE [rc |-> sp.rc, swap |-> sp.swap, via |-> "set_pending", slot |-> slot,
              log |-> sp.log,
              images |-> IF sp.rc = 0 THEN img_mgmt_state_read(swap) ELSE <<>>]

img_mgmt_state_write(hash_given, confirm, found, boot_ok, log_rc) ==
    LET slot == StateWriteSlot(hash_given, confirm, found)
        cf == img_mgmt_state_confirm(boot_ok, log_rc)
        sp == img_mgmt_state_set_pending(slot, confirm, boot_ok)
        none == [rc |-> MGMT_ERR_EINVAL, swap |-> swap, via |-> "none", slot |-> slot,
                 log |-> <<>>, images |-> <<>>]
    IN  IF slot < 0 THEN none
        ELSE IF slot = IMG_MGMT_BOOT_CURR_SLOT /\ confirm
        THEN [rc |-> cf.rc, swap |-> cf.swap, via |-> "confirm", slot |-> slot,
              log |-> cf.log,
              images |-> IF cf.rc = 0 THEN img_mgmt_state_read(cf.swap) ELSE <<>>]
        ELSE [rc |-> sp.rc, swap |-> sp.swap, via |-> "set_pending", slot |-> slot,
              log |-> sp.log,
              images |-> IF sp.rc = 0 THEN img_mgmt_state_read(sp.swap) ELSE <<>>]

(***************************************************************************)
(* img_mgmt_impl_erase_slot: the area of the auto-selected slot is erased  *)
(* when it is not empty. check_ok and erase_ok are the outcomes of the     *)
(* flash driver in the emptiness check and in boot_erase_img_bank.         *)
(***************************************************************************)
\* boot_erase_img_bank(area_id): the whole area is erased
boot_erase_img_bank(fa_id) == [flash EXCEPT ![fa_id] = {}]

EraseSlotOf(best_id, check_ok, erase_ok) ==
    LET chk == zephyr_img_mgmt_flash_check_empty(best_id, check_ok)
    IN  IF chk.rc # 0
        THEN [rc |-> MGMT_ERR_EUNKNOWN, flash |-> flash, best_id |-> best_id, erased |-> FALSE]
        ELSE IF chk.empty
        THEN [rc |-> 0, flash |-> flash, best_id |-> best_id, erased |-> FALSE]
        ELSE IF ~erase_ok
        THEN [rc |-> MGMT_ERR_EUNKNOWN, flash |-> flash, best_id |-> best_id, erased |-> FALSE]
        ELSE [rc |-> 0, flash |-> boot_erase_img_bank(best_id), best_id |-> best_id,
              erased |-> TRUE]

\* the CONFIG_BOARD_SCORPIO build: with no unused slot, the unconfirmed
\* slot is taken, or the inactive one when both are confirmed
img_mgmt_impl_erase_slot_Scorpio(check_ok, erase_ok) ==
    LET best_id == img_mgmt_get_unused_slot_area_id(swap, -1)
        flags_0 == img_mgmt_state_flags(swap, 0)
        flags_1 == img_mgmt_state_flags(swap, 1)
        best_slot == IF F_CONFIRMED \in flags_0 /\ F_CONFIRMED \in flags_1
                     THEN (IF F_ACTIVE \in flags_0 THEN 1 ELSE 0)
                     ELSE (IF F_CONFIRMED \in flags_0 THEN 1 ELSE 0)
    IN  IF best_id < 0
        THEN EraseSlotOf(zephyr_img_mgmt_flash_area_id(best_slot), check_ok, erase_ok)
        ELSE EraseSlotOf(best_id, check_ok, erase_ok)

img_mgmt_impl_erase_slot(check_ok, erase_ok) ==
    LET best_id == img_mgmt_get_unused_slot_area_id(swap, -1)
    IN  IF best_id < 0
        THEN [rc |-> MGMT_ERR_EUNKNOWN, flash |-> flash, best_id |-> best_id, erased |-> FALSE]
        ELSE EraseSlotOf(best_id, check_ok, erase_ok)

(***************************************************************************)
(* The requests and configurations the model draws from.                   *)
(***************************************************************************)
MaxVer == 1
MaxBuild == 1

Vers ==
    [iv_major : 0 .. MaxVer, iv_minor : 0 .. MaxVer, iv_revision : 0 .. MaxVer,
     iv_build_num : 0 .. MaxBuild]

Ver(ma, mi, re, bu) ==
    [iv_major |-> ma, iv_minor |-> mi, iv_revision |-> re, iv_build_num |-> bu]

\* the versions of the running image
CurVers == {Ver(0, 1, 0, 0), Ver(1, 0, 1, 1)}

\* the builds and devices: the flash alignment, assertions compiled in,
\* IMG_MGMT_LAZY_ERASE, CONFIG_HEAP_MEM_POOL_SIZE > 0
BuildConfigs ==
    {[align |-> 4, assert_on |-> TRUE, lazy_erase |-> FALSE, heap |-> TRUE],
     [align |-> 8, assert_on |-> FALSE, lazy_erase |-> FALSE, heap |-> FALSE],
     [align |-> 512, assert_on |-> FALSE, lazy_erase |-> TRUE, heap |-> TRUE],
     [align |-> 1, assert_on |-> TRUE, lazy_erase |-> TRUE, heap |-> FALSE]}

OversizedSha == [i \in 1 .. (IMG_MGMT_DATA_SHA_LEN + 1) |-> 0]
Shas == {<<>>, <<1>>, <<2>>, <<1, 1>>, OversizedSha}

FirstLens == {16, 300, 768}
ContLens == {0, 300, 304}
ContOffs == {296, 300, 600, 768, 900}
Sizes == {-1, 300, 900}
Images == 0 .. 4

V0 == Ver(0, 0, 0, 0)

BaseReq ==
    [off |-> 0, data_len |-> 300, size |-> 900, data_sha |-> <<>>, image |-> 0,
     upgrade |-> FALSE, hdr_magic_ok |-> TRUE, ih_ver |-> V0]

\* the requests and environments the inspector and the handler are checked on
FirstReqs ==
    {[BaseReq EXCEPT !.data_len = l, !.size = z, !.hdr_magic_ok = m] :
        l \in FirstLens, z \in Sizes, m \in BOOLEAN}
    \cup {[BaseReq EXCEPT !.data_sha = h, !.image = i] : h \in Shas, i \in Images}

UpgradeReqs ==
    {[BaseReq EXCEPT !.upgrade = TRUE, !.ih_ver = v, !.data_sha = h] :
        v \in Vers, h \in {<<>>, <<1>>}}

ContReqs ==
    {[BaseReq EXCEPT !.off = o, !.data_len = l, !.size = -1] :
        o \in ContOffs, l \in ContLens}

Call(r, c, f) == [req |-> r, env |-> [cur_ver |-> c, fail |-> f]]

AllCalls ==
    {Call([BaseReq EXCEPT !.off = -1], V0, "none")}
    \cup {Call(r, V0, "none") : r \in FirstReqs}
    \cup {Call([BaseReq EXCEPT !.data_sha = h, !.upgrade = u], V0, f) :
            h \in {<<>>, <<1>>}, u \in BOOLEAN,
            f \in {"ver", "check", "open", "erase", "write"}}
    \cup {Call(r, c, "none") : r \in UpgradeReqs, c \in CurVers}
    \cup {Call(r, V0, f) : r \in ContReqs, f \in {"none", "open", "write"}}

\* the requests the state machine takes its steps with
StepReqs ==
    {[BaseReq EXCEPT !.off = -1]}
    \cup {[BaseReq EXCEPT !.data_len = l, !.size = z] :
            l \in {300, 768}, z \in {300, 900}}
    \cup {[BaseReq EXCEPT !.data_sha = h] : h \in {<<1>>, <<2>>}}
    \cup {[BaseReq EXCEPT !.image = i] : i \in {2, 4}}
    \cup {[BaseReq EXCEPT !.upgrade = TRUE, !.ih_ver = v] :
            v \in {Ver(0, 1, 0, 1), Ver(1, 1, 0, 0)}}
    \cup {[BaseReq EXCEPT !.off = c[1], !.data_len = c[2], !.size = -1] :
            c \in {<<296, 304>>, <<300, 300>>, <<600, 300>>, <<600, 304>>}}

StepCalls ==
    {Call(r, V0, "none") : r \in {q \in StepReqs : ~q.upgrade}}
    \cup {Call(r, Ver(0, 1, 0, 0), "none") : r \in {q \in StepReqs : q.upgrade}}
    \cup {Call(BaseReq, V0, f) : f \in {"erase", "write"}}
    \cup {Call([BaseReq EXCEPT !.off = o, !.data_len = 300, !.size = -1], V0, "write") :
            o \in {300, 600}}

(***************************************************************************)
(* The state machine.                                                      *)
(***************************************************************************)
HistInit == [nwrites |-> 0, sent |-> 0, image |-> 0, area |-> -1, superseded |-> FALSE]

Init ==
    /\ swap \in {BOOT_SWAP_TYPE_NONE, BOOT_SWAP_TYPE_PANIC}
    /\ cfg \in BuildConfigs
    /\ \E f1 \in {{}, {FaSectors - 1}} :
          flash = [a \in AreaIds |->
                      IF a = FLASH_AREA_ID_image_0 THEN Sectors
                      ELSE IF a = FLASH_AREA_ID_image_1 THEN f1 ELSE {}]
    /\ g_img_mgmt_state = SessionIdle
    /\ ctx = [CtxInit EXCEPT !.alloc = ~cfg.heap]
    /\ halted = FALSE
    /\ hist = HistInit
    /\ obs = [op |-> "none"]

\* assert(0) in img_mgmt_impl_swap_type stops the program
Abort(op) ==
    /\ halted' = TRUE
    /\ obs' = [op |-> "abort", during |-> op]
    /\ UNCHANGED <<swap, g_img_mgmt_state, ctx, flash, cfg, hist>>

\* the client's view of the upload: an accepted first chunk starts the count
HistAfter(req, r) ==
    IF r.rc # 0 \/ ~r.action.proceed THEN hist
    ELSE IF req.off = 0
    THEN [nwrites |-> IF r.written > 0 THEN 1 ELSE 0, sent |-> req.data_len,
          image |-> req.image, area |-> r.action.area_id,
          superseded |-> g_img_mgmt_state.area_id # -1]
    ELSE [hist EXCEPT !.nwrites = @ + (IF r.written > 0 THEN 1 ELSE 0),
                      !.sent = req.off + req.data_len]

\* the inspector gets as far as asking whether a slot of the primary pair is in use
ReachesSlotInUse(req) ==
    /\ req.off = 0
    /\ req.data_len >= IMAGE_HEADER_SIZE
    /\ req.size # -1
    /\ req.hdr_magic_ok
    /\ Len(req.data_sha) <= IMG_MGMT_DATA_SHA_LEN
    /\ ~ResumeShortcut(req)
    /\ req.image - 1 \in {-1, 0, 1}

Upload(req, env) ==
    /\ ~halted
    /\ IF ReachesSlotInUse(req) /\ AssertFires
       THEN Abort("upload")
       ELSE \E r \in {img_mgmt_upload(req, env)} :
                /\ g_img_mgmt_state' = r.g
                /\ ctx' = r.ctx
                /\ flash' = r.flash
                /\ hist' = HistAfter(req, r)
                /\ obs' = [op |-> "upload", off |-> req.off, rc |-> r.rc,
                           proceed |-> r.action.proceed, erase |-> r.action.erase]
                /\ UNCHANGED <<swap, cfg, halted>>

SetPending(slot, permanent, boot_ok) ==
    /\ ~halted
    /\ IF AssertFires
       THEN Abort("set_pending")
       ELSE \E r \in {img_mgmt_state_set_pending(slot, permanent, boot_ok)} :
                /\ swap' = r.swap
                /\ obs' = [op |-> "set_pending", slot |-> slot, permanent |-> permanent,
                           rc |-> r.rc, log |-> r.log]
                /\ UNCHANGED <<g_img_mgmt_state, ctx, flash, cfg, halted, hist>>

Confirm(boot_ok, log_rc) ==
    /\ ~halted
    /\ IF AssertFires
       THEN Abort("confirm")
       ELSE \E r \in {img_mgmt_state_confirm(boot_ok, log_rc)} :
                /\ swap' = r.swap
                /\ obs' = [op |-> "confirm", rc |-> r.rc, notified |-> r.notified,
                           log |-> r.log]
                /\ UNCHANGED <<g_img_mgmt_state, ctx, flash, cfg, halted, hist>>

\* a state read that tears the upload session down
StateRead_ResetsSession ==
    /\ ~halted
    /\ IF AssertFires /\ (\E i \in {0, 1} : ImagePresent(i))
       THEN Abort("state_read")
       ELSE /\ obs' = [op |-> "state_read", rc |-> 0, images |-> img_mgmt_state_read(swap)]
            /\ g_img_mgmt_state' = SessionIdle
            /\ UNCHANGED <<swap, ctx, flash, cfg, halted, hist>>

StateRead ==
    /\ ~halted
    /\ IF AssertFires /\ (\E i \in {0, 1} : ImagePresent(i))
       THEN Abort("state_read")
       ELSE /\ obs' = [op |-> "state_read", rc |-> 0, images |-> img_mgmt_state_read(swap)]
            /\ UNCHANGED <<swap, g_img_mgmt_state, ctx, flash, cfg, halted, hist>>

StateWrite(hash_given, confirm, found, boot_ok, log_rc) ==
    /\ ~halted
    /\ IF AssertFires /\ StateWriteSlot(hash_given, confirm, found) >= 0
       THEN Abort("state_write")
       ELSE \E r \in {img_mgmt_state_write(hash_given, confirm, found, boot_ok, log_rc)} :
                /\ swap' = r.swap
                /\ obs' = [op |-> "state_write", slot |-> r.slot, via |-> r.via,
                           rc |-> r.rc, log |-> r.log, images |-> r.images]
                /\ UNCHANGED <<g_img_mgmt_state, ctx, flash, cfg, halted, hist>>

EraseSlot(check_ok, erase_ok) ==
    /\ ~halted
    /\ IF AssertFires
       THEN Abort("erase_slot")
       ELSE \E r \in {img_mgmt_impl_erase_slot(check_ok, erase_ok)} :
                /\ flash' = r.flash
                /\ obs' = [op |-> "erase_slot", rc |-> r.rc, best_id |-> r.best_id,
                           erased |-> r.erased]
                /\ UNCHANGED <<swap, g_img_mgmt_state, ctx, cfg, halted, hist>>

\* the device restarts: the bootloader resolves the swap, the RAM state is new
Reboot ==
    /\ swap' = BootResolve
    /\ flash' = IF BootSwaps
                THEN [flash EXCEPT ![FLASH_AREA_ID_image_0] = flash[FLASH_AREA_ID_image_1],
                                   ![FLASH_AREA_ID_image_1] = flash[FLASH_AREA_ID_image_0]]
                ELSE flash
    /\ g_img_mgmt_state' = SessionIdle
    /\ ctx' = [CtxInit EXCEPT !.alloc = ~cfg.heap]
    /\ halted' = FALSE
    /\ hist' = HistInit
    /\ obs' = [op |-> "reboot"]
    /\ UNCHANGED cfg

Next ==
    \/ \E c \in StepCalls : Upload(c.req, c.env)
    \/ \E slot \in {0, 1}, permanent \in BOOLEAN, boot_ok \in BOOLEAN :
          SetPending(slot, permanent, boot_ok)
    \/ \E boot_ok \in BOOLEAN, log_rc \in LogResults : Confirm(boot_ok, log_rc)
    \/ StateRead
    \/ \E hash_given \in BOOLEAN, confirm \in BOOLEAN, boot_ok \in BOOLEAN,
          log_rc \in LogResults :
          \E found \in (IF hash_given THEN {-1} \cup {i \in {0, 1} : ImagePresent(i)}
                        ELSE {-1}) :
             StateWrite(hash_given, confirm, found, boot_ok, log_rc)
    \/ \E check_ok \in BOOLEAN, erase_ok \in BOOLEAN : EraseSlot(check_ok, erase_ok)
    \/ Reboot

Spec == Init /\ [][Next]_vars

(***************************************************************************)
(* A client that uploads one image in chunks of one length: it sends the   *)
(* first chunk at offset 0 and every further chunk at the offset the       *)
(* device answered with, never more than what is left of the image; no     *)
(* flash call fails. hist holds the image's size, the chunk length and     *)
(* whether a chunk shorter than the flash alignment was sent before the    *)
(* last one.                                                               *)
(***************************************************************************)
ClientSizes == {300, 900}
ClientLens == {48, 300, 512}

ClientDone == g_img_mgmt_state.area_id = -1 /\ obs.op # "none"

ClientOffset == IF obs.op = "none" THEN 0 ELSE g_img_mgmt_state.off

ClientChunk ==
    LET left == hist.size - ClientOffset
    IN  [BaseReq EXCEPT !.off = ClientOffset,
                        !.data_len = IF hist.len < left THEN hist.len ELSE left,
                        !.size = IF ClientOffset = 0 THEN hist.size ELSE -1]

\* the chunk is not the last one and is shorter than the flash alignment
ClientChunkShort ==
    /\ ClientChunk.off + ClientChunk.data_len < hist.size
    /\ ClientChunk.data_len < cfg.align

ClientInit ==
    /\ swap = BOOT_SWAP_TYPE_NONE
    /\ cfg \in BuildConfigs
    /\ \E f1 \in {{}, {FaSectors - 1}} :
          flash = [a \in AreaIds |->
                      IF a = FLASH_AREA_ID_image_0 THEN Sectors
                      ELSE IF a = FLASH_AREA_ID_image_1 THEN f1 ELSE {}]
    /\ g_img_mgmt_state = SessionIdle
    /\ ctx = [CtxInit EXCEPT !.alloc = ~cfg.heap]
    /\ halted = FALSE
    /\ hist \in [size : ClientSizes, len : ClientLens, short : {FALSE}]
    /\ obs = [op |-> "none"]

ClientSend ==
    /\ ~ClientDone
    /\ ClientChunk.data_len > 0
    /\ \E r \in {img_mgmt_upload(ClientChunk, [cur_ver |-> V0, fail |-> "none"])} :
          /\ g_img_mgmt_state' = r.g
          /\ ctx' = r.ctx
          /\ flash' = r.flash
          /\ hist' = [hist EXCEPT !.short = @ \/ ClientChunkShort]
          /\ obs' = [op |-> "upload", off |-> ClientChunk.off, rc |-> r.rc,
                     proceed |-> r.action.proceed, erase |-> r.action.erase]
    /\ UNCHANGED <<swap, cfg, halted>>

ClientNext == ClientSend

\* the client goes on sending as long as the upload is not complete
ClientSpec == ClientInit /\ [][ClientNext]_vars /\ WF_vars(ClientNext)

(***************************************************************************)
(* img_mgmt_vercmp on its own: the comparisons of three versions, made     *)
(* once from the initial state.                                            *)
(***************************************************************************)
\* the versions of the bounded set and those of the examples of section 8
VerSamples ==
    Vers \cup {Ver(1, 2, 3, 9), Ver(1, 2, 3, 1), Ver(1, 3, 0, 0), Ver(1, 2, 9, 0)}

VercmpInit ==
    /\ swap = BOOT_SWAP_TYPE_NONE
    /\ cfg = [align |-> 4, assert_on |-> TRUE, lazy_erase |-> FALSE, heap |-> TRUE]
    /\ flash = [a \in AreaIds |-> IF a = FLASH_AREA_ID_image_0 THEN Sectors ELSE {}]
    /\ g_img_mgmt_state = SessionIdle
    /\ ctx = CtxInit
    /\ halted = FALSE
    /\ hist = HistInit
    /\ obs = [op |-> "none"]

VercmpApply(a, b, c) ==
    /\ obs.op = "none"
    /\ obs' = [op |-> "vercmp", a |-> a, b |-> b, c |-> c,
               ab |-> img_mgmt_vercmp(a, b), ba |-> img_mgmt_vercmp(b, a),
               bc |-> img_mgmt_vercmp(b, c), ac |-> img_mgmt_vercmp(a, c)]
    /\ UNCHANGED <<swap, g_img_mgmt_state, ctx, flash, cfg, halted, hist>>

VercmpNext == \E a \in VerSamples, b \in VerSamples, c \in VerSamples : VercmpApply(a, b, c)

VercmpSpec == VercmpInit /\ [][VercmpNext]_vars


(***************************************************************************)
(* The flags of the slots.                                                 *)
(***************************************************************************)
\* the table of section 4.1, by the bootloader's swap type and the slot
FlagTable(bs, slot) ==
    CASE bs = BOOT_SWAP_TYPE_NONE ->
            IF slot = 0 THEN {"Confirmed", "Active"} ELSE {}
      [] bs = BOOT_SWAP_TYPE_TEST ->
            IF slot = 0 THEN {"Confirmed"} ELSE {"Pending"}
      [] bs = BOOT_SWAP_TYPE_PERM ->
            IF slot = 0 THEN {"Confirmed"} ELSE {"Pending", "Permanent"}
      [] bs = BOOT_SWAP_TYPE_REVERT ->
            IF slot = 0 THEN {"Active"} ELSE {"Confirmed"}

\* C1: for each of the swap types None, Test, Permanent and Revert and for
\* both slots, img_mgmt_state_flags returns exactly the flag set of the
\* table, and the image list of a state read or a state write carries
\* exactly those flag sets.
C1_FlagTable ==
    swap \in KnownBootSwapTypes =>
        /\ \A slot \in {0, 1} : img_mgmt_state_flags(swap, slot) = FlagTable(swap, slot)
        /\ obs.op \in {"state_read", "state_write"} =>
              \A i \in DOMAIN obs.images : obs.images[i] = FlagTable(swap, i)

\* a state read during a revert that lists both slots
C1_Witness ==
    /\ obs.op = "state_read"
    /\ swap = BOOT_SWAP_TYPE_REVERT
    /\ DOMAIN obs.images = {0, 1}

\* C2: whenever the swap type is None, Test or Permanent (no Revert in
\* progress), exactly one of the slots 0 and 1 reports the Active flag.
C2_ExactlyOneActive ==
    (swap \in KnownBootSwapTypes /\ swap # BOOT_SWAP_TYPE_REVERT) =>
        Cardinality({slot \in {0, 1} : F_ACTIVE \in img_mgmt_state_flags(swap, slot)}) = 1

\* C3: a swap type outside None, Test, Permanent and Revert is never taken
\* for None: either the program stops on it, or img_mgmt_impl_swap_type
\* does not return the None swap type for it and img_mgmt_state_flags
\* returns neither the None row nor the empty set for it; and no status
\* read or confirm is answered while it is there.
C3_UnknownSwapTypeIsFatal ==
    swap \notin KnownBootSwapTypes =>
        /\ \/ AssertFires
           \/ /\ img_mgmt_impl_swap_type(swap) # IMG_MGMT_SWAP_TYPE_NONE
              /\ \A slot \in {0, 1} :
                    img_mgmt_state_flags(swap, slot)
                        \notin {FlagTable(BOOT_SWAP_TYPE_NONE, slot), {}}
        /\ obs.op \notin {"state_read", "confirm"}

(***************************************************************************)
(* The slot selection.                                                     *)
(***************************************************************************)
SlotFree(slot) ==
    img_mgmt_state_flags(swap, slot) \cap {"Active", "Confirmed", "Pending"} = {}

\* C4: an auto request gets the area of the lowest of the slots 0 and 1
\* that has none of Active, Confirmed and Pending, and -1 when both have
\* one; an explicit request for slot 0 or 1 gets that slot's area exactly
\* when the slot has none of the three flags, and -1 otherwise.
C4_SlotSelection ==
    /\ img_mgmt_get_unused_slot_area_id(swap, -1) =
          (IF SlotFree(0) THEN FLASH_AREA_ID_image_0
           ELSE IF SlotFree(1) THEN FLASH_AREA_ID_image_1 ELSE -1)
    /\ img_mgmt_get_unused_slot_area_id(swap, 0) =
          (IF SlotFree(0) THEN FLASH_AREA_ID_image_0 ELSE -1)
    /\ img_mgmt_get_unused_slot_area_id(swap, 1) =
          (IF SlotFree(1) THEN FLASH_AREA_ID_image_1 ELSE -1)

\* an upload was refused for want of a slot while slot 1 is pending
C4_Witness ==
    /\ obs.op = "upload"
    /\ obs.off = 0
    /\ obs.rc = MGMT_ERR_ENOMEM
    /\ swap = BOOT_SWAP_TYPE_TEST
    /\ ~SlotFree(0) /\ ~SlotFree(1)

(***************************************************************************)
(* The upload: resumption and resynchronisation.                           *)
(***************************************************************************)
\* a first chunk that passes the checks of lines 638-670
WellFormedFirst(req) ==
    /\ req.off = 0
    /\ req.data_len >= IMAGE_HEADER_SIZE
    /\ req.size # -1
    /\ req.hdr_magic_ok
    /\ Len(req.data_sha) <= IMG_MGMT_DATA_SHA_LEN

\* the request changes nothing: not the session, not the flash, not the writer
LeavesAllAsItIs(r) ==
    /\ r.g = g_img_mgmt_state
    /\ r.flash = flash
    /\ r.ctx = ctx
    /\ ~r.erased
    /\ r.written = 0

\* C5: while a session is Active with a non-empty fingerprint, a valid
\* off=0 request with the same fingerprint (length and bytes) returns
\* success with proceed=false and erase=false, whatever the version, the
\* slots and the flash would answer; it does not get to the slot selection,
\* and the session (area, size, offset, fingerprint), the flash and the
\* writer are as before, so that the answer carries the offset as it was.
C5_ResumptionIdempotent ==
    \A c \in AllCalls :
        (/\ WellFormedFirst(c.req)
         /\ Len(c.req.data_sha) > 0
         /\ g_img_mgmt_state.area_id # -1
         /\ g_img_mgmt_state.data_sha_len = Len(c.req.data_sha)
         /\ g_img_mgmt_state.data_sha = c.req.data_sha)
        => LET r == img_mgmt_upload(c.req, c.env)
           IN  /\ r.rc = 0
               /\ ~r.action.proceed
               /\ ~r.action.erase
               /\ ~ReachesSlotInUse(c.req)
               /\ LeavesAllAsItIs(r)
               /\ r.g.off = g_img_mgmt_state.off

\* a first chunk was sent again while its session was under way
C5_Witness ==
    /\ obs.op = "upload"
    /\ obs.off = 0
    /\ obs.rc = 0
    /\ ~obs.proceed
    /\ g_img_mgmt_state.area_id # -1
    /\ g_img_mgmt_state.data_sha_len > 0
    /\ g_img_mgmt_state.off > 0

\* C6: a continuation (off > 0) whose off is not the offset the session
\* expects returns success with proceed=false, whatever else the request
\* carries and whether or not the flash would fail; nothing is written or
\* erased, the session is as before, and the answer carries the expected
\* offset.
C6_ResyncNeverErrors ==
    \A c \in AllCalls :
        (c.req.off > 0 /\ c.req.off # g_img_mgmt_state.off)
        => LET r == img_mgmt_upload(c.req, c.env)
           IN  /\ r.rc = 0
               /\ ~r.action.proceed
               /\ LeavesAllAsItIs(r)
               /\ r.g.off = g_img_mgmt_state.off

\* a continuation at another offset than the expected one was answered
C6_Witness ==
    /\ obs.op = "upload"
    /\ obs.off > 0
    /\ obs.off # g_img_mgmt_state.off
    /\ obs.rc = 0
    /\ ~obs.proceed
    /\ g_img_mgmt_state.area_id # -1
    /\ g_img_mgmt_state.off > 0

(***************************************************************************)
(* The upload: the size of the write.                                      *)
(***************************************************************************)
\* C7: for every accepted chunk of length L at offset off, with alignment
\* A and total size S, the write length is L when off + L >= S and
\* L - (L mod A) otherwise, for every alignment.
C7_WriteSizeClamping ==
    \A c \in AllCalls :
        LET r == img_mgmt_impl_upload_inspect(c.req, c.env)
        IN  (r.rc = 0 /\ r.action.proceed)
            => r.action.write_bytes =
                  IF c.req.off + c.req.data_len >= r.action.size
                  THEN c.req.data_len
                  ELSE c.req.data_len - (c.req.data_len % cfg.align)

\* C8: while the session is Active its offset is a multiple of the flash
\* alignment, and every write that does not reach the total size has a
\* length that is a multiple of the alignment.
C8_NoMisalignedWrite ==
    /\ g_img_mgmt_state.area_id # -1 => g_img_mgmt_state.off % cfg.align = 0
    /\ \A c \in AllCalls :
          LET r == img_mgmt_upload(c.req, c.env)
          IN  (r.written > 0 /\ c.req.off + r.written < r.action.size)
              => r.written % cfg.align = 0

(***************************************************************************)
(* The upload from the first chunk to the last.                            *)
(***************************************************************************)
\* the area an auto request is to get: that of the lowest free slot
FreeArea ==
    IF SlotFree(0) THEN FLASH_AREA_ID_image_0
    ELSE IF SlotFree(1) THEN FLASH_AREA_ID_image_1 ELSE -1

\* a first chunk of an image for the free slot, on a device without a
\* session and without a failure
FirstOfUpload(c) ==
    /\ WellFormedFirst(c.req)
    /\ c.req.image = 0
    /\ ~c.req.upgrade
    /\ c.env.fail = "none"
    /\ c.req.data_len <= c.req.size
    /\ g_img_mgmt_state.area_id = -1
    /\ FreeArea # -1

\* a chunk that is not the last has a length the flash can write whole
Writable(len, end, size) == end < size => len % cfg.align = 0

\* what is to come of an accepted chunk of len bytes that ends at end
ChunkWritten(r, len, end, size) ==
    /\ r.rc = 0
    /\ r.action.proceed
    /\ r.written = len
    /\ r.g.off = end
    /\ r.g.size = size
    /\ (r.g.area_id = -1) = (end = size)

StrictlyNewer(a, b) ==
    \/ a.iv_major > b.iv_major
    \/ a.iv_major = b.iv_major /\ a.iv_minor > b.iv_minor
    \/ a.iv_major = b.iv_major /\ a.iv_minor = b.iv_minor /\ a.iv_revision > b.iv_revision

\* the inspector gets as far as the version check and can read the version
ReachesUpgradeCheck(c) ==
    /\ WellFormedFirst(c.req)
    /\ ~ResumeShortcut(c.req)
    /\ img_mgmt_get_unused_slot_area_id(swap, c.req.image - 1) >= 0
    /\ c.env.fail # "ver"

\* C10: a first chunk with upgrade set whose (major, minor, revision) is
\* not greater than the running image's (equal, or equal but for the build
\* number, or smaller) never gets proceed=true: nothing is erased or
\* written and the session stays as it was; and when the request gets as
\* far as the version check, the answer is the bad-state error with the
\* downgrade text.
C10_UpgradeOnlyGate ==
    \A c \in AllCalls :
        (c.req.off = 0 /\ c.req.upgrade /\ ~StrictlyNewer(c.req.ih_ver, c.env.cur_ver))
        => LET r == img_mgmt_upload(c.req, c.env)
           IN  /\ ~r.action.proceed
               /\ LeavesAllAsItIs(r)
               /\ ReachesUpgradeCheck(c)
                     => (r.rc = MGMT_ERR_EBADSTATE /\ r.errstr = "downgrade")

\* an upload was refused as a downgrade and the session is Idle as before
C10_Witness ==
    /\ obs.op = "upload"
    /\ obs.off = 0
    /\ obs.rc = MGMT_ERR_EBADSTATE
    /\ ~obs.proceed
    /\ g_img_mgmt_state = SessionIdle
    /\ hist = HistInit

(***************************************************************************)
(* The transitions: set_pending and confirm.                               *)
(***************************************************************************)
\* C11: set_pending on a slot other than slot 0 that has Confirmed set
\* returns the bad-state error, whether the request is for a test or a
\* permanent swap and whether or not the bootloader would fail; the
\* bootloader is not asked and the swap type stays as it is.
C11_ConfirmedGuard ==
    \A slot \in {0, 1}, permanent \in BOOLEAN, boot_ok \in BOOLEAN :
        ("Confirmed" \in img_mgmt_state_flags(swap, slot) /\ slot # 0)
        => LET r == img_mgmt_state_set_pending(slot, permanent, boot_ok)
           IN  /\ r.rc = MGMT_ERR_EBADSTATE
               /\ ~r.requested
               /\ r.swap = swap

\* set_pending on slot 1 was refused during a revert, where slot 1 is Confirmed
C11_Witness ==
    /\ obs.op = "set_pending"
    /\ obs.slot = 1
    /\ obs.rc = MGMT_ERR_EBADSTATE
    /\ "Confirmed" \in img_mgmt_state_flags(swap, 1)

\* C12: while slot 0 or slot 1 reports Pending, confirm returns the
\* bad-state error to its caller, the confirmed marker is not written, the
\* upgrade-completion observer is not notified and the swap type stays as
\* it is.
C12_ConfirmRefusedWhilePending ==
    \A boot_ok \in BOOLEAN, log_rc \in LogResults :
        (\E slot \in {0, 1} : "Pending" \in img_mgmt_state_flags(swap, slot))
        => LET r == img_mgmt_state_confirm(boot_ok, log_rc)
           IN  /\ r.rc = MGMT_ERR_EBADSTATE
               /\ ~r.persisted
               /\ ~r.notified
               /\ r.swap = swap

\* an upload has just been completed: the session is Idle at the total size
UploadComplete ==
    /\ g_img_mgmt_state.area_id = -1
    /\ g_img_mgmt_state.size > 0
    /\ g_img_mgmt_state.off = g_img_mgmt_state.size

\* the slot of the primary pair the upload went to
UploadedSlot == IF hist.area = FLASH_AREA_ID_image_0 THEN 0 ELSE 1

\* C13: after a completed upload into the auto-selected slot of the
\* primary pair, with no swap scheduled since and the uploaded image still
\* in the slot (it has not been erased), the state write that names
\* that slot's image succeeds when the bootloader does, for a test as for a
\* permanent request, and its answer, read after the transition, lists
\* that slot with Pending, with Permanent exactly when permanent was asked
\* for, and the boot slot with Confirmed.
C13_PendingAfterUpload ==
    (/\ UploadComplete
     /\ hist.image = 0
     /\ hist.area \in {FLASH_AREA_ID_image_0, FLASH_AREA_ID_image_1}
     /\ SlotFree(UploadedSlot)
     /\ ImagePresent(UploadedSlot))
    => \A permanent \in BOOLEAN, log_rc \in LogResults :
          LET r == img_mgmt_state_write(TRUE, permanent, UploadedSlot, TRUE, log_rc)
          IN  /\ r.rc = 0
              /\ r.via = "set_pending"
              /\ DOMAIN r.images = {0, 1}
              /\ "Pending" \in r.images[UploadedSlot]
              /\ ("Permanent" \in r.images[UploadedSlot]) = permanent
              /\ "Confirmed" \in r.images[0]

\* the state write for the slot of a completed auto-selected upload was
\* answered with that slot pending and the boot slot confirmed
C13_Witness ==
    /\ UploadComplete
    /\ hist.image = 0
    /\ hist.area = FLASH_AREA_ID_image_1
    /\ hist.nwrites = 3
    /\ obs.op = "state_write"
    /\ obs.via = "set_pending"
    /\ obs.slot = 1
    /\ obs.rc = 0
    /\ obs.images[1] = {"Pending"}
    /\ "Confirmed" \in obs.images[0]

(***************************************************************************)
(* The upload: continuation without a session, supersession.               *)
(***************************************************************************)
\* C14: while the session is Idle (area_id = -1) no request with off > 0
\* is answered with proceed=true, and every accepted action carries an
\* area id that is not negative.
C14_ContinuationNeedsActive ==
    \A c \in AllCalls :
        LET r == img_mgmt_impl_upload_inspect(c.req, c.env)
        IN  /\ (c.req.off > 0 /\ g_img_mgmt_state.area_id = -1) => ~r.action.proceed
            /\ (r.rc = 0 /\ r.action.proceed) => r.action.area_id >= 0

\* C15: while a session is Active, a valid off=0 request whose fingerprint
\* is not the session's (other bytes, other length, or none) is handled as
\* a first chunk: the version gate refuses it when upgrade is set and the
\* version is not greater; otherwise, with a free slot and no flash
\* failure, the slot is selected anew, erase is flagged as the area's
\* state demands, proceed is true, and afterwards the session holds the
\* request's fingerprint and size and an offset that counts the bytes
\* written of this chunk only, Idle exactly when that is the whole image.
C15_Supersession ==
    \A c \in AllCalls :
        (/\ WellFormedFirst(c.req)
         /\ g_img_mgmt_state.area_id # -1
         /\ \/ Len(c.req.data_sha) = 0
            \/ c.req.data_sha # g_img_mgmt_state.data_sha
         /\ c.req.image = 0
         /\ c.req.data_len <= c.req.size
         /\ c.env.fail = "none"
         /\ FreeArea # -1)
        => LET r == img_mgmt_upload(c.req, c.env)
           IN  IF c.req.upgrade /\ ~StrictlyNewer(c.req.ih_ver, c.env.cur_ver)
               THEN r.rc = MGMT_ERR_EBADSTATE /\ LeavesAllAsItIs(r)
               ELSE /\ r.rc = 0
                    /\ r.action.proceed
                    /\ r.action.area_id = FreeArea
                    /\ r.action.erase = (~cfg.lazy_erase /\ flash[FreeArea] # {})
                    /\ r.g.data_sha = c.req.data_sha
                    /\ r.g.data_sha_len = Len(c.req.data_sha)
                    /\ r.g.size = c.req.size
                    /\ r.g.off = r.written
                    /\ r.written = r.action.write_bytes
                    /\ r.written <= c.req.data_len
                    /\ r.g.area_id = (IF r.g.off = r.g.size THEN -1 ELSE FreeArea)

\* a first chunk with another fingerprint took the place of an upload under way
C15_Witness ==
    /\ obs.op = "upload"
    /\ obs.off = 0
    /\ obs.rc = 0
    /\ obs.proceed
    /\ hist.superseded
    /\ hist.nwrites = 1
    /\ g_img_mgmt_state.area_id # -1
    /\ g_img_mgmt_state.data_sha = <<2>>
    /\ g_img_mgmt_state.off < 600

(***************************************************************************)
(* The upload: malformed requests, the erase flag.                         *)
(***************************************************************************)
\* C16: a request without an offset, and an off=0 request whose chunk is
\* shorter than the image header, that has no total size, or whose header
\* magic is wrong, gets the invalid-argument error with the malformed-header
\* reason (the magic-mismatch reason for the magic) and proceed=false; it
\* does not get to the slot selection, and the session, the flash and the
\* writer are as before.
C16_MalformedRejected ==
    \A c \in AllCalls :
        LET short == c.req.data_len < IMAGE_HEADER_SIZE \/ c.req.size = -1
        IN  (c.req.off = -1 \/ (c.req.off = 0 /\ (short \/ ~c.req.hdr_magic_ok)))
            => LET r == img_mgmt_upload(c.req, c.env)
               IN  /\ r.rc = MGMT_ERR_EINVAL
                   /\ r.errstr = (IF c.req.off = -1 \/ short
                                  THEN "hdr_malformed" ELSE "magic_mismatch")
                   /\ ~r.action.proceed
                   /\ ~ReachesSlotInUse(c.req)
                   /\ LeavesAllAsItIs(r)

\* a request without an offset was refused while an upload was under way
C16_Witness ==
    /\ obs.op = "upload"
    /\ obs.off = -1
    /\ obs.rc = MGMT_ERR_EINVAL
    /\ ~obs.proceed
    /\ g_img_mgmt_state.area_id # -1
    /\ g_img_mgmt_state.off > 0

LexOrder(a, b) ==
    IF StrictlyNewer(b, a) THEN -1 ELSE IF StrictlyNewer(a, b) THEN 1 ELSE 0

SameButBuild(a, b) ==
    /\ a.iv_major = b.iv_major
    /\ a.iv_minor = b.iv_minor
    /\ a.iv_revision = b.iv_revision

\* C18: img_mgmt_vercmp returns -1, 0 or 1 as the lexicographic order of
\* (major, minor, revision) does; vercmp(a, b) = -vercmp(b, a); it is
\* transitive; versions that differ only in the build number compare equal,
\* so 1.2.3+9 against 1.2.3+1 is 0 and 1.3.0 against 1.2.9 is 1.
C18_Vercmp ==
    obs.op = "vercmp" =>
        /\ obs.ab \in {-1, 0, 1}
        /\ obs.ab = LexOrder(obs.a, obs.b)
        /\ obs.ab = -obs.ba
        /\ (obs.ab <= 0 /\ obs.bc <= 0) => obs.ac <= 0
        /\ (obs.ab <= 0 /\ obs.bc < 0) => obs.ac < 0
        /\ (obs.ab < 0 /\ obs.bc <= 0) => obs.ac < 0
        /\ (obs.ab = 0 /\ obs.bc = 0) => obs.ac = 0
        /\ SameButBuild(obs.a, obs.b) => obs.ab = 0
        /\ (obs.a = Ver(1, 2, 3, 9) /\ obs.b = Ver(1, 2, 3, 1)) => obs.ab = 0
        /\ (obs.a = Ver(1, 3, 0, 0) /\ obs.b = Ver(1, 2, 9, 0)) => obs.ab = 1

\* 1.2.3+9 was compared with 1.2.3+1, and 1.2.3+1 with 1.3.0
C18_Witness ==
    /\ obs.op = "vercmp"
    /\ obs.a = Ver(1, 2, 3, 9)
    /\ obs.b = Ver(1, 2, 3, 1)
    /\ obs.c = Ver(1, 3, 0, 0)
    /\ obs.ab = 0
    /\ obs.bc = -1
    /\ obs.ac = -1


(***************************************************************************)
(* The slots beyond the primary pair.                                      *)
(***************************************************************************)
\* the slots the device has a flash area for
HasFlashArea(slot) == slot \in {0, 1, 2}

\* C19: for an explicitly requested slot s >= 2 the flags are not
\* consulted: whatever the bootloader's swap type, the result is the
\* slot's flash area id when the device has one and -1 when it has none,
\* and then the inspector answers the first chunk with the no-slot error;
\* a request below -1 yields -1.
C19_UnusedSlotAreaId ==
    /\ \A s \in 2 .. 4, bs \in BootSwapTypes :
          img_mgmt_get_unused_slot_area_id(bs, s) =
              (IF HasFlashArea(s) THEN zephyr_img_mgmt_flash_area_id(s) ELSE -1)
    /\ \A s \in {-3, -2}, bs \in BootSwapTypes :
          img_mgmt_get_unused_slot_area_id(bs, s) = -1
    /\ \A c \in AllCalls :
          (/\ WellFormedFirst(c.req)
           /\ ~ResumeShortcut(c.req)
           /\ c.req.image - 1 >= 2
           /\ ~HasFlashArea(c.req.image - 1))
          => LET r == img_mgmt_impl_upload_inspect(c.req, c.env)
             IN  /\ r.rc = MGMT_ERR_ENOMEM
                 /\ r.errstr = "no_slot"


(***************************************************************************)
(* set_pending past its guard.                                             *)
(***************************************************************************)
\* the guard of set_pending turns the request down
ConfirmedGuard(slot) == "Confirmed" \in img_mgmt_state_flags(swap, slot) /\ slot # 0

SetPendingResult(slot, boot_ok) ==
    IF ConfirmedGuard(slot) THEN MGMT_ERR_EBADSTATE
    ELSE IF slot # 1 \/ ~boot_ok THEN MGMT_ERR_EUNKNOWN
    ELSE 0

\* C21: every call of set_pending, rejected by the guard, failed by the
\* port or the bootloader, or successful, logs exactly one outcome, as its
\* last step and after the transition attempt when there is one; the event
\* carries the result the call returns and the slot's hash, absent when the
\* image info cannot be read; it is a confirm-log when permanent is true
\* and a pending-log otherwise; the result is the same whether or not the
\* hash can be read.
C21_OutcomeLogged ==
    \A slot \in {0, 1, 2}, permanent \in BOOLEAN, boot_ok \in BOOLEAN :
        LET r == img_mgmt_state_set_pending(slot, permanent, boot_ok)
            logs == {i \in 1 .. Len(r.steps) : r.steps[i] = "log"}
        IN  /\ Len(r.log) = 1
            /\ logs = {Len(r.steps)}
            /\ r.requested => r.steps[1] = "write_pending"
            /\ r.log[1].status = r.rc
            /\ r.log[1].kind = (IF permanent THEN "confirm" ELSE "pending")
            /\ r.log[1].hash = (IF ImagePresent(slot) THEN "hash" ELSE "absent")
            /\ r.rc = SetPendingResult(slot, boot_ok)

\* a permanent request for slot 1 failed in the bootloader while slot 1
\* holds no readable image: a confirm-log with the generic error and no hash
C21_Witness ==
    /\ obs.op = "set_pending"
    /\ obs.slot = 1
    /\ obs.permanent
    /\ obs.rc = MGMT_ERR_EUNKNOWN
    /\ ~ImagePresent(1)
    /\ obs.log = <<[kind |-> "confirm", status |-> MGMT_ERR_EUNKNOWN, hash |-> "absent"]>>


(***************************************************************************)
(* The dispatch of the image state write.                                  *)
(***************************************************************************)
\* C22: a state write with no hash and confirm false, or with a hash no
\* slot holds, returns invalid-argument and makes no transition; no hash
\* with confirm true names the booted slot; the booted slot with confirm
\* true runs confirm, every other resolved request runs set_pending with
\* permanent = confirm; a transition that fails (bad-state when its
\* precondition does not hold) has its error returned, and then no image
\* state is in the answer.
C22_StateWriteDispatch ==
    \A hash_given \in BOOLEAN, confirm \in BOOLEAN, boot_ok \in BOOLEAN,
       log_rc \in LogResults :
       \A found \in (IF hash_given THEN {-1, 0, 1} ELSE {-1}) :
          LET r == img_mgmt_state_write(hash_given, confirm, found, boot_ok, log_rc)
              unresolved == (~hash_given /\ ~confirm) \/ (hash_given /\ found = -1)
          IN  /\ unresolved => /\ r.rc = MGMT_ERR_EINVAL
                               /\ r.via = "none"
                               /\ r.swap = swap
                               /\ r.log = <<>>
                               /\ r.images = <<>>
              /\ (~hash_given /\ confirm) => r.slot = IMG_MGMT_BOOT_CURR_SLOT
              /\ ~unresolved =>
                    IF r.slot = IMG_MGMT_BOOT_CURR_SLOT /\ confirm
                    THEN /\ r.via = "confirm"
                         /\ img_mgmt_state_any_pending(swap)
                               => (r.rc = MGMT_ERR_EBADSTATE /\ r.images = <<>>)
                         /\ (~img_mgmt_state_any_pending(swap) /\ ~boot_ok)
                               => (r.rc = MGMT_ERR_EUNKNOWN /\ r.images = <<>>)
                    ELSE /\ r.via = "set_pending"
                         /\ r.log[1].kind = (IF confirm THEN "confirm" ELSE "pending")
                         /\ r.rc = SetPendingResult(r.slot, boot_ok)
                         /\ r.rc # 0 => r.images = <<>>


(***************************************************************************)
(* What a rejected upload request is told.                                 *)
(***************************************************************************)
\* C23: every call of the inspector that returns an error also sets the
\* reason string; the no-slot reason goes with the out-of-memory code and
\* with no other, the malformed-header and magic reasons go with
\* invalid-argument; a request at an offset other than the session's is
\* never answered with an error.
C23_RejectionsCarryReason ==
    \A c \in AllCalls :
        LET r == img_mgmt_impl_upload_inspect(c.req, c.env)
        IN  /\ r.rc # 0 => r.errstr # "unset"
            /\ r.rc # 0 => ((r.rc = MGMT_ERR_ENOMEM) = (r.errstr = "no_slot"))
            /\ (r.rc # 0 /\ r.errstr \in {"hdr_malformed", "magic_mismatch"})
                  => r.rc = MGMT_ERR_EINVAL
            /\ (c.req.off > 0 /\ c.req.off # g_img_mgmt_state.off) => r.rc = 0


(***************************************************************************)
(* Who changes the upload session.                                         *)
(***************************************************************************)
\* C24: a step that handles an image state read, an image state write, a
\* set_pending or a confirm leaves the upload session, the flash and the
\* writer's context as they are; so does an upload request the handler
\* does not proceed with, which is a request only the inspector has seen,
\* accepted as a resync or rejected; the session changes only in a step
\* of the upload handler (or when the device restarts).
C24_SessionFrame ==
    [][/\ obs'.op \in {"state_read", "state_write", "set_pending", "confirm"}
            => UNCHANGED <<g_img_mgmt_state, flash, ctx>>
       /\ (obs'.op = "upload" /\ ~obs'.proceed)
            => UNCHANGED <<g_img_mgmt_state, flash, ctx>>
       /\ g_img_mgmt_state' # g_img_mgmt_state
            => (obs'.op = "reboot" \/ (obs'.op = "upload" /\ obs'.proceed))]_vars

\* a state write made slot 1 pending while the upload into it is in
\* progress: the session is still Active at the offset it had
C24_Witness ==
    /\ obs.op = "state_write"
    /\ obs.rc = 0
    /\ obs.via = "set_pending"
    /\ swap = BOOT_SWAP_TYPE_TEST
    /\ g_img_mgmt_state.area_id = FLASH_AREA_ID_image_1
    /\ g_img_mgmt_state.off = 300
    /\ g_img_mgmt_state.size = 900


(***************************************************************************)
(* Erasing a slot.                                                         *)
(***************************************************************************)
\* C25: in the default build img_mgmt_impl_erase_slot changes the flash
\* only in the area that auto-selection returns, which is the area of a
\* slot of the primary pair with none of Active, Confirmed and Pending, and
\* only when that area is not empty; an empty area is left alone with
\* success; when both slots are in use the error is returned and nothing
\* is erased.
C25_EraseSlotSparesSlotsInUse ==
    \A check_ok \in BOOLEAN, erase_ok \in BOOLEAN :
        LET r == img_mgmt_impl_erase_slot(check_ok, erase_ok)
        IN  /\ \A slot \in {0, 1} :
                  ~SlotFree(slot)
                  => r.flash[zephyr_img_mgmt_flash_area_id(slot)]
                        = flash[zephyr_img_mgmt_flash_area_id(slot)]
            /\ \A a \in AreaIds :
                  r.flash[a] # flash[a]
                  => /\ a = img_mgmt_get_unused_slot_area_id(swap, -1)
                     /\ flash[a] # {}
                     /\ r.flash[a] = {}
                     /\ r.erased
                     /\ r.rc = 0
            /\ r.erased => r.flash[r.best_id] # flash[r.best_id]
            /\ (~SlotFree(0) /\ ~SlotFree(1))
                  => (r.rc = MGMT_ERR_EUNKNOWN /\ r.flash = flash /\ ~r.erased)

\* slot 1, free and holding data, has been erased, and slot 0, in use,
\* still holds the running image
C25_Witness ==
    /\ obs.op = "erase_slot"
    /\ obs.rc = 0
    /\ obs.erased
    /\ obs.best_id = FLASH_AREA_ID_image_1
    /\ flash[FLASH_AREA_ID_image_1] = {}
    /\ flash[FLASH_AREA_ID_image_0] = Sectors
    /\ ~SlotFree(0)


(***************************************************************************)
(* The offset of the session and the declared size.                        *)
(***************************************************************************)
\* C26: in every reachable state the session's offset is at least 0 and
\* at most the declared size, and no request the inspector accepts with
\* proceed set has its offset plus its write length beyond the declared
\* size.
C26_OffsetWithinSize ==
    /\ 0 <= g_img_mgmt_state.off
    /\ g_img_mgmt_state.off <= g_img_mgmt_state.size
    /\ \A c \in AllCalls :
          LET r == img_mgmt_impl_upload_inspect(c.req, c.env)
          IN  (r.rc = 0 /\ r.action.proceed)
              => c.req.off + r.action.write_bytes <= r.action.size


(***************************************************************************)
(* The progress of an upload.                                              *)
(***************************************************************************)
\* the request just handled was accepted with proceed set
ChunkAccepted == obs'.op = "upload" /\ obs'.rc = 0 /\ obs'.proceed

\* the session's offset is beyond the offset the chunk was sent at
OffsetAdvanced == g_img_mgmt_state'.off > ClientOffset

\* C27 as amended: every chunk of at least one data byte that is accepted
\* with proceed set and that is the last chunk of the upload, or is at
\* least as long as the flash alignment, advances the session's offset by
\* at least one byte; and a client that always sends its next non-empty
\* chunk at the offset the device answered with, with no flash failure,
\* completes the upload, the session being Idle again, unless it has sent
\* a chunk shorter than the alignment before the last one.
C27_UploadProgress ==
    /\ [][(ChunkAccepted /\ ~ClientChunkShort) => OffsetAdvanced]_vars
    /\ <>(hist.short \/ (ClientDone /\ UploadComplete))

\* the client has completed the upload of 900 bytes in chunks of 300 on a
\* flash of alignment 8, where the chunks before the last are clamped
C27_Witness ==
    /\ ClientDone
    /\ UploadComplete
    /\ g_img_mgmt_state.size = 900
    /\ hist.len = 300
    /\ cfg.align = 8
    /\ ~hist.short
    /\ obs.proceed
    /\ obs.off = 888

\* C27 as written: every accepted chunk with at least one data byte
\* advances the session's offset, and the client completes the upload.
C27_UploadProgress_AsWritten ==
    /\ [][ChunkAccepted => OffsetAdvanced]_vars
    /\ <>(ClientDone /\ UploadComplete)


(***************************************************************************)
(* The steps of confirm.                                                   *)
(***************************************************************************)
\* the positions of step name in the steps of a call
StepsAt(steps, name) == {i \in 1 .. Len(steps) : steps[i] = name}

\* C28: confirm notifies the upgrade-completion observer only when the
\* confirmed marker has been persisted, so neither when it is refused
\* because a slot is Pending nor when the boot-state write fails; the
\* marker is written before the observer is notified and the observer is
\* notified before the outcome is logged; every call logs exactly one
\* outcome.
C28_NotifyOnlyAfterPersist ==
    \A boot_ok \in BOOLEAN, log_rc \in LogResults :
        LET r == img_mgmt_state_confirm(boot_ok, log_rc)
        IN  /\ r.notified => r.persisted
            /\ img_mgmt_state_any_pending(swap) => (~r.notified /\ ~r.persisted)
            /\ ~boot_ok => ~r.notified
            /\ r.notified = (StepsAt(r.steps, "dfu_confirmed") # {})
            /\ \A i \in StepsAt(r.steps, "write_confirmed"),
                  j \in StepsAt(r.steps, "dfu_confirmed") : i < j
            /\ \A i \in StepsAt(r.steps, "dfu_confirmed"),
                  j \in StepsAt(r.steps, "log") : i < j
            /\ StepsAt(r.steps, "log") = {Len(r.steps)}
            /\ Len(r.log) = 1


(***************************************************************************)
(* The writer and its flash-image context.                                 *)
(***************************************************************************)
WriterOffsets == {0, 296, 300, 600}
WriterLens == {0, 296, 300}

\* C29: img_mgmt_impl_write_image_data succeeds only when the offset is
\* the number of bytes its context has taken so far; at offset 0 the
\* context is set up anew on the session's area; at another offset, with
\* no context (heap builds) or with a context at a different position, it
\* returns an error, writes nothing and leaves the position as it is; a
\* successful call moves the position on by the bytes written, or, in a
\* heap build and on the last chunk, releases the context; after every
\* accepted chunk of an upload the position is the session's offset, the
\* context being gone only in a heap build when the upload is complete.
C29_WriterFollowsSession ==
    /\ \A offset \in WriterOffsets, num_bytes \in WriterLens,
          last \in BOOLEAN, io_ok \in BOOLEAN :
          LET r == img_mgmt_impl_write_image_data(g_img_mgmt_state.area_id, flash,
                                                  offset, num_bytes, last, io_ok)
              nocontext == cfg.heap /\ ~ctx.alloc
          IN  /\ (offset # 0 /\ (nocontext \/ offset # ctx.pos))
                    => /\ r.rc # 0
                       /\ r.flash = flash
                       /\ r.ctx = ctx
              /\ r.rc # 0 => r.flash = flash
              /\ r.rc = 0
                    => /\ offset # 0 => (offset = ctx.pos /\ ~nocontext)
                       /\ IF cfg.heap /\ last
                          THEN ~r.ctx.alloc
                          ELSE /\ r.ctx.alloc
                               /\ r.ctx.pos = offset + num_bytes
                               /\ offset = 0 => r.ctx.area = g_img_mgmt_state.area_id
                               /\ offset # 0 => r.ctx.area = ctx.area
    /\ (obs.op = "upload" /\ obs.rc = 0 /\ obs.proceed)
          => IF cfg.heap /\ ~ctx.alloc
             THEN g_img_mgmt_state.area_id = -1
             ELSE ctx.pos = g_img_mgmt_state.off

\* in a heap build the third chunk has completed an upload of 900 bytes and
\* the context has been released
C29_Witness ==
    /\ obs.op = "upload"
    /\ obs.rc = 0
    /\ obs.proceed
    /\ obs.off = 600
    /\ cfg.heap
    /\ ~ctx.alloc
    /\ g_img_mgmt_state.area_id = -1
    /\ g_img_mgmt_state.off = 900
    /\ hist.nwrites = 3


====
